---- MODULE Spec2Model ----
(***************************************************************************)
(* JiraApp: the command protocol parser (Source/protocol_parser.py), the   *)
(* argument binder and execution facade (Source/mcp_layer.py) and the      *)
(* dispatch loop (Source/orchestrator.py).                                 *)
(*                                                                         *)
(* Text is a sequence of one-character strings, so that strip, split and   *)
(* the regular expressions are computed the way the Python code computes   *)
(* them.                                                                   *)
(***************************************************************************)
EXTENDS Integers, Sequences, FiniteSets, Bags, TLC

VARIABLES
    llm_output,                 \* the planner's raw text handed to parse_llm_output
    parse_result,               \* what parse_llm_output returned or raised
    pc,                         \* position of the application's main line of control
    events,                     \* the ParsedEvent list execute_loop iterates
    ev_index,                   \* 1-based position of execute_loop in events
    raised,                     \* the exception that ended the current request, "" when none
    submitted,                  \* remote calls this dispatch handed to _run_coro_sync
    name_to_tool,               \* McpLayer._name_to_tool: stripped name -> McpTool descriptor
    remote_tool_to_server,      \* McpLayer._remote_tool_to_server
    remote_tool_descriptions,   \* McpLayer._remote_tool_descriptions
    remote_tool_schemas,        \* McpLayer._remote_tool_schemas
    server_configs,             \* McpLayer._server_configs
    server_procs,               \* McpLayer._server_procs: server name -> its Popen handle
    server_persistent,          \* McpLayer._server_persistent
    persistent_sessions,        \* McpLayer._persistent_sessions
    server_locks,               \* McpLayer._server_locks (the names that own a lock)
    loop,                       \* McpLayer._loop: "none" or "running"
    loop_thread,                \* McpLayer._loop_thread: "none" or "thread"
    started,                    \* McpLayer._started
    alive,                      \* the child processes the operating system still runs
    launched,                   \* how many child processes Popen has created so far
    last_call,                  \* the latest call on the layer's public API and how it ended
    threads,                    \* live threads with an event loop: "running" or "stopping"
    loop_id,                    \* the thread whose loop McpLayer._loop refers to, 0 for None
    units,                      \* the coroutines handed to run_coroutine_threadsafe so far
    sessions,                   \* the client sessions opened so far
    lock_owner,                 \* the unit that holds each server's asyncio.Lock, 0 when free
    bind_last,                  \* the latest build_schema call and its outcome
    bind_again                  \* the same call made once more, and its outcome

parser_vars == <<llm_output, parse_result>>
dispatch_vars == <<events, ev_index, raised, submitted>>
layer_vars == <<name_to_tool, remote_tool_to_server, remote_tool_descriptions,
                remote_tool_schemas, server_configs, server_procs, server_persistent,
                persistent_sessions, server_locks, loop, loop_thread, started>>
bind_vars == <<bind_last, bind_again>>
os_vars == <<alive, launched>>
async_vars == <<threads, loop_id, units, sessions, lock_owner>>

vars == <<parser_vars, pc, dispatch_vars, layer_vars, bind_vars, os_vars, last_call,
          async_vars>>

----------------------------------------------------------------------------
(* Characters and Python string primitives                                 *)

\* str.strip() whitespace, within the alphabet of the model
Whitespace == {" ", "\n", "\t"}

LowerCase == <<"a","b","c","d","e","f","g","h","i","j","k","l","m",
               "n","o","p","q","r","s","t","u","v","w","x","y","z">>

UpperCase == <<"A","B","C","D","E","F","G","H","I","J","K","L","M",
               "N","O","P","Q","R","S","T","U","V","W","X","Y","Z">>

Digits == {"0","1","2","3","4","5","6","7","8","9"}

\* the regular expression class \w
WordChars == {LowerCase[i] : i \in 1..26} \cup {UpperCase[i] : i \in 1..26}
             \cup Digits \cup {"_"}

\* str.upper() on one character
UpperChar(c) ==
    IF \E i \in 1..26 : LowerCase[i] = c
    THEN UpperCase[CHOOSE i \in 1..26 : LowerCase[i] = c]
    ELSE c

\* str.upper()
Upper(s) == [i \in 1..Len(s) |-> UpperChar(s[i])]

RECURSIVE LStrip(_)
LStrip(s) == IF s # <<>> /\ Head(s) \in Whitespace THEN LStrip(Tail(s)) ELSE s

RECURSIVE RStrip(_)
RStrip(s) ==
    IF s # <<>> /\ s[Len(s)] \in Whitespace
    THEN RStrip(SubSeq(s, 1, Len(s) - 1))
    ELSE s

\* str.strip()
Strip(s) == RStrip(LStrip(s))

\* str.split(sep) for a one-character separator: always at least one piece
RECURSIVE Split(_, _)
Split(s, sep) ==
    IF \A i \in 1..Len(s) : s[i] # sep
    THEN <<s>>
    ELSE LET p == CHOOSE i \in 1..Len(s) :
                      s[i] = sep /\ \A j \in 1..(i - 1) : s[j] # sep
         IN  <<SubSeq(s, 1, p - 1)>> \o Split(SubSeq(s, p + 1, Len(s)), sep)

\* sep.join(parts)
RECURSIVE Join(_, _)
Join(parts, sep) ==
    IF parts = <<>> THEN <<>>
    ELSE IF Len(parts) = 1 THEN parts[1]
    ELSE parts[1] \o <<sep>> \o Join(Tail(parts), sep)

----------------------------------------------------------------------------
(* protocol_parser.py                                                      *)

\* Python's None for the marker indexes (which are 0-based and so >= 0)
None == -1

BEGIN_TOKEN == <<"B","E","G","I","N">>
END_TOKEN == <<"E","N","D">>

\* class CommandType(Enum)
CommandType == { <<"Q","U","E","R","Y">>, <<"T","A","S","K">>,
                 <<"E","R","R","O","R">> }

\* re.compile(r'^BEGIN$', re.MULTILINE).match(line): the line holds no
\* newline (it is a piece of split('\n')), so the whole line is the token
begin_pattern_match(line) == line = BEGIN_TOKEN

\* re.compile(r'^END$', re.MULTILINE).match(line)
end_pattern_match(line) == line = END_TOKEN

\* length of the longest prefix of \w characters
WordPrefixLen(line) ==
    IF \A i \in 1..Len(line) : line[i] \in WordChars
    THEN Len(line)
    ELSE (CHOOSE i \in 1..Len(line) :
              line[i] \notin WordChars /\ \A j \in 1..(i - 1) : line[j] \in WordChars) - 1

\* re.compile(r'^(\w+)\((.*)\)$', re.MULTILINE).match(line): \w+ must end
\* right before a "(" (no word character is a parenthesis), .* is greedy and
\* the line must end with ")"
command_pattern_match(line) ==
    LET w == WordPrefixLen(line)
    IN  IF w >= 1 /\ Len(line) >= w + 2 /\ line[w + 1] = "(" /\ line[Len(line)] = ")"
        THEN [matched |-> TRUE,
              group1 |-> SubSeq(line, 1, w),
              group2 |-> SubSeq(line, w + 2, Len(line) - 1)]
        ELSE [matched |-> FALSE, group1 |-> <<>>, group2 |-> <<>>]

\* what a call returns or raises: kind is "ok" or the exception class
Raise(kind, line, reason) ==
    [kind |-> kind, events |-> <<>>, line |-> line, reason |-> reason]

\* ProtocolParser._parse_command_line(line, line_number)
parse_command_line(line, line_number) ==
    LET match == command_pattern_match(line)
        command_name == Upper(match.group1)
        command_data == Strip(match.group2)
        pieces == Split(command_data, "(")
    IN  IF ~match.matched
        THEN Raise("FailParser", line_number + 1, "Invalid command format")
        ELSE IF command_name \notin CommandType
        THEN Raise("FailParser", line_number + 1, "Unknown command type")
        ELSE IF Len(pieces) < 2
        THEN Raise("IndexError", 0, "list index out of range")
        ELSE [kind |-> "ok",
              events |-> << [command_type |-> command_name,
                             tool_name |-> pieces[1],
                             tool_args |-> Split(Split(pieces[2], ")")[1], ","),
                             raw_command |-> line,
                             line_number |-> line_number + 1] >>,
              line |-> 0,
              reason |-> ""]

\* the marker scan without its break: the last BEGIN and the last END win
ScanMarkers_no_break(lines, i, begin_line) ==
    LET B == { j \in i..(Len(lines) - 1) : begin_pattern_match(Strip(lines[j + 1])) }
        E == { j \in i..(Len(lines) - 1) : end_pattern_match(Strip(lines[j + 1])) }
        Last(S) == CHOOSE x \in S : \A y \in S : y <= x
    IN  << IF B = {} THEN begin_line ELSE Last(B),
           IF E = {} THEN None ELSE Last(E) >>

\* the marker scan of parse_llm_output: for i, line in enumerate(lines).
\* i is the 0-based index; the result is <<begin_line, end_line>>
RECURSIVE ScanMarkers(_, _, _)
ScanMarkers(lines, i, begin_line) ==
    IF i >= Len(lines) THEN <<begin_line, None>>
    ELSE IF begin_pattern_match(Strip(lines[i + 1]))
    THEN ScanMarkers(lines, i + 1, i)
    ELSE IF end_pattern_match(Strip(lines[i + 1]))
    THEN <<begin_line, i>>
    ELSE ScanMarkers(lines, i + 1, begin_line)

\* the command loop of parse_llm_output: for i in range(begin_line + 1, end_line)
RECURSIVE ParseCommands(_, _, _, _)
ParseCommands(lines, i, end_line, parsed) ==
    IF i >= end_line
    THEN [kind |-> "ok", events |-> parsed, line |-> 0, reason |-> ""]
    ELSE LET line == Strip(lines[i + 1])
         IN  IF line = <<>>
             THEN ParseCommands(lines, i + 1, end_line, parsed)
             ELSE LET event == parse_command_line(line, i)
                  IN  IF event.kind # "ok"
                      THEN event
                      ELSE ParseCommands(lines, i + 1, end_line,
                                         parsed \o event.events)

\* ProtocolParser.parse_llm_output(llm_output)
parse_llm_output(text) ==
    IF text = <<>> \/ Strip(text) = <<>>
    THEN Raise("FailParser", 0, "Empty or None LLM output")
    ELSE LET lines == Split(Strip(text), "\n")
             markers == ScanMarkers(lines, 0, None)
             begin_line == markers[1]
             end_line == markers[2]
         IN  IF begin_line = None
             THEN Raise("FailParser", 0, "Missing BEGIN marker")
             ELSE IF end_line = None
             THEN Raise("FailParser", 0, "Missing END marker")
             ELSE IF begin_line >= end_line
             THEN Raise("FailParser", 0, "BEGIN marker after END marker")
             ELSE ParseCommands(lines, begin_line + 1, end_line, <<>>)

----------------------------------------------------------------------------
(* mcp_layer.py                                                            *)

\* an empty dict
EmptyMap == [x \in {} |-> x]

\* d[k] = v
Put(d, k, v) == [x \in DOMAIN d \cup {k} |-> IF x = k THEN v ELSE d[x]]

\* the built-in tool registered by McpLayer._register_builtin_tools
PING == <<"p","i","n","g">>

\* ping_handler(payload): {"ok": True, "reply": "pong"}
ping_handler(payload) == "pong"

\* the descriptor McpLayer._register_builtin_tools registers
PingTool ==
    [name |-> PING, description |-> "Health-check; always returns 'pong'.",
     handler |-> "ping_handler"]

\* tool.handler(args or {}): the built-in answers pong; a handler registered
\* by a caller answers with its own mark
Invoke(handler, payload) ==
    IF handler = "ping_handler" THEN ping_handler(payload) ELSE handler

\* ParsedEvent before execute_loop has assigned event.result
NoEventResult == "<unset>"

\* the values of a dict
Range(d) == { d[k] : k \in DOMAIN d }

register_tool_overwrites(local, tool) ==
    LET name == Strip(tool.name)
    IN  IF name = <<>>
        THEN [kind |-> "ValueError", local |-> local]
        ELSE [kind |-> "ok", local |-> Put(local, name, tool)]

\* McpLayer.register_tool(tool) on _name_to_tool: what it raises, and the
\* directory afterwards
register_tool(local, tool) ==
    LET name == Strip(tool.name)
    IN  IF name = <<>>
        THEN [kind |-> "ValueError", local |-> local]
        ELSE IF name \in DOMAIN local
        THEN [kind |-> "ValueError", local |-> local]
        ELSE [kind |-> "ok", local |-> Put(local, name, tool)]

\* McpLayer.list_llm_tools(): the {name, description} records of the local
\* tools, then of the discovered ones, as a bag
list_llm_tools(local, descriptions) ==
    SetToBag({ [name |-> local[n].name, description |-> local[n].description] :
                   n \in DOMAIN local })
    (+) SetToBag({ [name |-> n, description |-> descriptions[n]] :
                       n \in DOMAIN descriptions })

execute_started_first(local, to_server, is_started, the_loop, tool_name) ==
    IF tool_name \in DOMAIN local
    THEN [kind |-> "local", via |-> local[tool_name].handler]
    ELSE IF ~is_started \/ the_loop = "none"
    THEN [kind |-> "RuntimeError", via |-> ""]
    ELSE IF tool_name \notin DOMAIN to_server
    THEN [kind |-> "KeyError", via |-> ""]
    ELSE [kind |-> "remote", via |-> to_server[tool_name]]

\* the routing of McpLayer.execute(tool_name, args): the local handler, the
\* exception raised, or the server the call is submitted for
execute(local, to_server, is_started, the_loop, tool_name) ==
    IF tool_name \in DOMAIN local
    THEN [kind |-> "local", via |-> local[tool_name].handler]
    ELSE IF tool_name \notin DOMAIN to_server
    THEN [kind |-> "KeyError", via |-> ""]
    ELSE IF ~is_started \/ the_loop = "none"
    THEN [kind |-> "RuntimeError", via |-> ""]
    ELSE [kind |-> "remote", via |-> to_server[tool_name]]

\* McpLayer._validate_server_configs(servers): every server has a name and
\* an sse_url, and no name occurs twice
validate_server_configs(servers) ==
    IF \E i \in 1..Len(servers) :
           \/ servers[i].name = ""
           \/ servers[i].sse_url = ""
           \/ \E j \in 1..(i - 1) : servers[j].name = servers[i].name
    THEN "ValueError"
    ELSE "ok"

\* what build_schema returns (kind "ok", the dict in value) or raises
BindOutcome(kind, value, missing) ==
    [kind |-> kind, value |-> value, missing |-> missing]

\* 1-based position of the first element of seq that is not a key of d
FirstAbsent(seq, d) ==
    CHOOSE i \in 1..Len(seq) :
        seq[i] \notin DOMAIN d /\ \A j \in 1..(i - 1) : seq[j] \in DOMAIN d

\* the binding loop of build_schema: nothing is bound when more arguments
\* are supplied than the schema declares
BindPositional(list_of_args_schema, list_of_args) ==
    IF Len(list_of_args) <= Len(list_of_args_schema)
    THEN [k \in { list_of_args_schema[i] : i \in 1..Len(list_of_args) } |->
             list_of_args[CHOOSE i \in 1..Len(list_of_args) : list_of_args_schema[i] = k]]
    ELSE EmptyMap

\* the required-argument check of build_schema
RequiredMissing(required_args, mcp_schema) ==
    \E i \in 1..Len(required_args) : required_args[i] \notin DOMAIN mcp_schema

\* build_schema with its required check made against the declared names
\* instead of the bound ones
build_schema_declared_check(schemas, tool_name, list_of_args) ==
    IF tool_name \notin DOMAIN schemas
    THEN BindOutcome("KeyError", EmptyMap, "")
    ELSE LET tool_schema == schemas[tool_name]
             schema_properties == tool_schema.properties
             mcp_schema == BindPositional(schema_properties, list_of_args)
             declared == [k \in { schema_properties[i] : i \in 1..Len(schema_properties) } |-> k]
         IN  IF schema_properties = <<>>
             THEN BindOutcome("ok", EmptyMap, "")
             ELSE IF RequiredMissing(tool_schema.required, declared)
             THEN BindOutcome("ValueError", EmptyMap,
                              tool_schema.required[FirstAbsent(tool_schema.required, declared)])
             ELSE BindOutcome("ok", mcp_schema, "")

\* McpLayer.build_schema(tool_name, list_of_args), reading _remote_tool_schemas.
\* A schema is [properties, required]: the keys of inputSchema["properties"]
\* in their order and the inputSchema["required"] list (both empty when absent)
build_schema(schemas, tool_name, list_of_args) ==
    IF tool_name \notin DOMAIN schemas
    THEN BindOutcome("KeyError", EmptyMap, "")
    ELSE LET tool_schema == schemas[tool_name]
             schema_properties == tool_schema.properties
             mcp_schema == BindPositional(schema_properties, list_of_args)
         IN  IF schema_properties = <<>>
             THEN BindOutcome("ok", EmptyMap, "")
             ELSE IF RequiredMissing(tool_schema.required, mcp_schema)
             THEN BindOutcome("ValueError", EmptyMap,
                              tool_schema.required[FirstAbsent(tool_schema.required, mcp_schema)])
             ELSE BindOutcome("ok", mcp_schema, "")

\* the merge loop keeping the first server that listed a name
RECURSIVE MergeListing_first_wins(_, _, _, _)
MergeListing_first_wins(dir, local, name, pairs) ==
    IF pairs = <<>> THEN dir
    ELSE LET tool_info == Head(pairs)
         IN  IF \/ tool_info.name = <<>>
                \/ tool_info.name \in local
                \/ tool_info.name \in DOMAIN dir.to_server
             THEN MergeListing_first_wins(dir, local, name, Tail(pairs))
             ELSE MergeListing_first_wins(
                      [to_server |-> Put(dir.to_server, tool_info.name, name),
                       descriptions |-> Put(dir.descriptions, tool_info.name,
                                            tool_info.description),
                       schemas |-> Put(dir.schemas, tool_info.name,
                                       tool_info.inputSchema)],
                      local, name, Tail(pairs))

\* the merge loop of McpLayer._discover_all_tools for one server's listing.
\* dir is the three remote maps; a local name or an empty name is skipped,
\* a name seen on an earlier server is overwritten
RECURSIVE MergeListing(_, _, _, _)
MergeListing(dir, local, name, pairs) ==
    IF pairs = <<>> THEN dir
    ELSE LET tool_info == Head(pairs)
         IN  IF tool_info.name = <<>> \/ tool_info.name \in local
             THEN MergeListing(dir, local, name, Tail(pairs))
             ELSE MergeListing(
                      [to_server |-> Put(dir.to_server, tool_info.name, name),
                       descriptions |-> Put(dir.descriptions, tool_info.name,
                                            tool_info.description),
                       schemas |-> Put(dir.schemas, tool_info.name,
                                       tool_info.inputSchema)],
                      local, name, Tail(pairs))

\* discovery that gives up at the first server whose listing failed
RECURSIVE DiscoverAllTools_stops_on_failure(_, _, _, _)
DiscoverAllTools_stops_on_failure(dir, local, servers, listing) ==
    IF servers = <<>> \/ Head(listing) = <<>> THEN dir
    ELSE DiscoverAllTools_stops_on_failure(
             MergeListing(dir, local, Head(servers).name, Head(listing)),
             local, Tail(servers), Tail(listing))

\* McpLayer._discover_all_tools: every configured server in order; listing[i]
\* is what _list_tools_for_server_sync returned for server i (the empty list
\* when the listing failed, which that method catches and logs)
RECURSIVE DiscoverAllTools(_, _, _, _)
DiscoverAllTools(dir, local, servers, listing) ==
    IF servers = <<>> THEN dir
    ELSE DiscoverAllTools(MergeListing(dir, local, Head(servers).name, Head(listing)),
                          local, Tail(servers), Tail(listing))

----------------------------------------------------------------------------
(* The environment: configurations and what the tool servers report        *)

GET == <<"g","e","t">>
FIND == <<"f","i","n","d">>

\* get_jira_issue(issue_key) and search_jira_issues(jql, max_results=10) of
\* MCP/jira_mcp_server.py, and a remote tool that reuses the built-in's name
JiraListing ==
    << [name |-> GET, description |-> "issue by key",
        inputSchema |-> [properties |-> <<"issue_key">>, required |-> <<"issue_key">>]],
       [name |-> FIND, description |-> "search by JQL",
        inputSchema |-> [properties |-> <<"jql", "max_results">>, required |-> <<"jql">>]],
       [name |-> PING, description |-> "remote ping",
        inputSchema |-> [properties |-> <<>>, required |-> <<>>]] >>

\* a second server that also offers a tool named get, described differently
WikiListing ==
    << [name |-> GET, description |-> "page by id",
        inputSchema |-> [properties |-> <<"page_id">>, required |-> <<"page_id">>]] >>

JiraServer == [name |-> "jira", sse_url |-> "http://jira/sse", command |-> TRUE,
               persistent |-> FALSE]

WikiServer == [name |-> "wiki", sse_url |-> "http://wiki/sse", command |-> TRUE,
               persistent |-> TRUE]

\* the configurations start is given: no server, or the Jira server
Configs == { <<>>, <<JiraServer>> }

\* what listing a server's tools can return: nothing (unreachable), or its tools
Listings(server) ==
    IF server.name = "jira" THEN { <<>>, JiraListing } ELSE { <<>>, WikiListing }

\* one listing result per configured server, in configuration order
ListingChoices(servers) ==
    { l \in [1..Len(servers) -> UNION { Listings(servers[i]) : i \in 1..Len(servers) }] :
          \A i \in 1..Len(servers) : l[i] \in Listings(servers[i]) }

\* McpLayer.__init__
InitLayer ==
    /\ name_to_tool = [n \in {PING} |-> PingTool]
    /\ remote_tool_to_server = EmptyMap
    /\ remote_tool_descriptions = EmptyMap
    /\ remote_tool_schemas = EmptyMap
    /\ server_configs = <<>>
    /\ server_procs = EmptyMap
    /\ server_persistent = EmptyMap
    /\ persistent_sessions = EmptyMap
    /\ server_locks = {}
    /\ loop = "none"
    /\ loop_thread = "none"
    /\ started = FALSE

\* a call on the layer's public API, and what it returned or raised.  flag is
\* stop's terminate_processes, and for start whether a Popen raised; listed
\* is what each server's tool listing gave when the call ran discovery
Call(op, name, handler, flag, kind, value) ==
    [op |-> op, name |-> name, handler |-> handler, flag |-> flag,
     outcome |-> [kind |-> kind, value |-> value], listed |-> <<>>]

NoCall == Call("none", <<>>, "", FALSE, "none", "")

\* no child process exists and no call has been made
InitOs ==
    /\ alive = {}
    /\ launched = 0
    /\ last_call = NoCall

\* no loop thread exists, nothing was handed to a loop, no session was opened
InitAsync ==
    /\ threads = EmptyMap
    /\ loop_id = 0
    /\ units = <<>>
    /\ sessions = <<>>
    /\ lock_owner = EmptyMap

NoParse == [kind |-> "none", events |-> <<>>, line |-> 0, reason |-> ""]

NoBind == [tool |-> <<>>, args |-> <<>>, outcome |-> BindOutcome("none", EmptyMap, "")]

InitOrchestrator ==
    /\ llm_output = <<>>
    /\ parse_result = NoParse
    /\ events = <<>>
    /\ ev_index = 0
    /\ raised = ""
    /\ submitted = <<>>

InitBind ==
    /\ bind_last = NoBind
    /\ bind_again = NoBind

----------------------------------------------------------------------------
(* McpLayer.start and McpLayer.stop                                        *)

\* the positions among the first n servers whose entry names a command
WithCommand(servers, n) == { i \in 1..n : servers[i].command }

\* the names of the first n servers
ServerNames(servers, n) == { servers[i].name : i \in 1..n }

\* _server_procs after the launch loop of start went through the first n
\* servers: a new handle for each that names a command, numbered on from base
LaunchProcs(procs, servers, n, base) ==
    LET names == { servers[i].name : i \in WithCommand(servers, n) }
    IN  [s \in DOMAIN procs \cup names |->
            IF s \in names
            THEN base + Cardinality(WithCommand(servers,
                            CHOOSE i \in WithCommand(servers, n) : servers[i].name = s))
            ELSE procs[s]]

\* _server_persistent after the launch loop went through the first n servers
PersistentFlags(flags, servers, n) ==
    [s \in DOMAIN flags \cup ServerNames(servers, n) |->
        IF s \in ServerNames(servers, n)
        THEN (CHOOSE srv \in { servers[i] : i \in 1..n } : srv.name = s).persistent
        ELSE flags[s]]

\* the thread _start_loop_thread creates: a new one, told apart from every
\* thread a unit or a session still refers to
NewThread ==
    LET used == DOMAIN threads \cup { units[i].loop : i \in DOMAIN units }
                \cup { sessions[j].loop : j \in DOMAIN sessions }
    IN  IF used = {} THEN 1 ELSE 1 + (CHOOSE m \in used : \A t \in used : t <= m)

\* the locks start creates for the first n servers: a new asyncio.Lock each
NewLocks(owner, servers, n) ==
    [s \in DOMAIN owner \cup ServerNames(servers, n) |->
        IF s \in ServerNames(servers, n) THEN 0 ELSE owner[s]]

\* a unit that has not returned, raised or been cancelled
Pending(u) == u.result = "pending"

\* _runner's finally block on the thread t: every task still pending on
\* the loop is cancelled and gathered; a caller blocked in fut.result gets
\* the cancellation
Cancelled(us, t) ==
    [i \in DOMAIN us |->
        IF us[i].loop = t /\ Pending(us[i])
        THEN [us[i] EXCEPT !.result = "cancelled", !.pc = "done",
                           !.waiter = IF @ = "waiting" THEN "raised" ELSE @]
        ELSE us[i]]

\* the sessions after that drain: a cancelled _async_call_remote_tool leaves
\* its two async with blocks, which closes the session it had opened; what
\* _ensure_persistent_session entered by hand stays open
ClosedByDrain(ss, us, t) ==
    [j \in DOMAIN ss |->
        IF \E i \in DOMAIN us :
               /\ us[i].loop = t
               /\ Pending(us[i])
               /\ us[i].kind = "call"
               /\ us[i].session = j
        THEN [ss[j] EXCEPT !.live = FALSE]
        ELSE ss[j]]

StartIsNoOp_never == FALSE

\* the first statement of start: if self._started: return
StartIsNoOp == started

\* McpLayer.start(config_path).  path_exists: the file is there; servers:
\* what _load_config reads from it; fails_at: the position of the server
\* whose Popen raises, 0 when every launch works; loop_ok: the loop is
\* running when _start_loop_thread returns; listing: what each server's
\* tool listing gives.  threads holds a thread from the moment its loop runs
McpStart(path_exists, servers, fails_at, loop_ok, listing) ==
    IF StartIsNoOp
    THEN /\ last_call' = Call("start", <<>>, "", FALSE, "ok", "already started")
         /\ UNCHANGED <<layer_vars, os_vars, async_vars>>
    ELSE IF ~path_exists
    THEN /\ last_call' = Call("start", <<>>, "", FALSE, "FileNotFoundError", "")
         /\ UNCHANGED <<layer_vars, os_vars, async_vars>>
    ELSE IF validate_server_configs(servers) # "ok"
    THEN /\ server_configs' = servers
         /\ last_call' = Call("start", <<>>, "", FALSE, "ValueError", "")
         /\ UNCHANGED <<name_to_tool, remote_tool_to_server, remote_tool_descriptions,
                        remote_tool_schemas, server_procs, server_persistent,
                        persistent_sessions, server_locks, loop, loop_thread,
                        started, os_vars, async_vars>>
    ELSE LET n == IF fails_at = 0 THEN Len(servers) ELSE fails_at - 1
             procs == LaunchProcs(server_procs, servers, n, launched)
             created == { procs[servers[i].name] : i \in WithCommand(servers, n) }
         IN  /\ server_configs' = servers
             /\ server_persistent' = PersistentFlags(server_persistent, servers, n)
             /\ server_locks' = server_locks \cup ServerNames(servers, n)
             /\ lock_owner' = NewLocks(lock_owner, servers, n)
             /\ launched' = launched + Cardinality(created)
             /\ IF fails_at # 0
                THEN \* _launch_process raises out of start
                     /\ server_procs' = procs
                     /\ alive' = alive \cup created
                     /\ last_call' = Call("start", <<>>, "", TRUE, "OSError", "")
                     /\ UNCHANGED <<remote_tool_to_server, remote_tool_descriptions,
                                    remote_tool_schemas, loop, loop_thread, started,
                                    threads, loop_id>>
                ELSE IF ~loop_ok
                THEN \* _cleanup_processes, then RuntimeError
                     /\ loop_thread' = "thread"
                     /\ loop' = "none"
                     /\ server_procs' = EmptyMap
                     /\ alive' = (alive \cup created) \ Range(procs)
                     /\ last_call' = Call("start", <<>>, "", FALSE, "RuntimeError", "")
                     /\ UNCHANGED <<remote_tool_to_server, remote_tool_descriptions,
                                    remote_tool_schemas, started, threads, loop_id>>
                ELSE LET dir == DiscoverAllTools(
                                    [to_server |-> remote_tool_to_server,
                                     descriptions |-> remote_tool_descriptions,
                                     schemas |-> remote_tool_schemas],
                                    DOMAIN name_to_tool, servers, listing)
                     IN  /\ loop_thread' = "thread"
                         /\ loop' = "running"
                         /\ threads' = Put(threads, NewThread, "running")
                         /\ loop_id' = NewThread
                         /\ server_procs' = procs
                         /\ alive' = alive \cup created
                         /\ remote_tool_to_server' = dir.to_server
                         /\ remote_tool_descriptions' = dir.descriptions
                         /\ remote_tool_schemas' = dir.schemas
                         /\ started' = TRUE
                         /\ last_call' = [Call("start", <<>>, "", FALSE, "ok", "started")
                                              EXCEPT !.listed = listing]
             /\ UNCHANGED <<name_to_tool, persistent_sessions, units, sessions>>

\* McpLayer.stop(terminate_processes): the loop and its thread are dropped,
\* the recorded child processes are terminated (killed if need be) and
\* forgotten, the routing, description, configuration and session tables
\* are cleared; _remote_tool_schemas is not touched.  join_ok: the loop
\* thread ends within the bounded join, after cancelling what is pending on
\* its loop; otherwise it is left behind, told to stop.  The loop is dropped
\* before _is_loop_running is asked, so _async_close_persistent_sessions is
\* never submitted
McpStop(terminate_processes, join_ok) ==
    /\ loop' = "none"
    /\ loop_thread' = "none"
    /\ loop_id' = 0
    /\ IF loop_id \in DOMAIN threads
       THEN IF join_ok
            THEN /\ threads' = [t \in DOMAIN threads \ {loop_id} |-> threads[t]]
                 /\ units' = Cancelled(units, loop_id)
                 /\ sessions' = ClosedByDrain(sessions, units, loop_id)
            ELSE /\ threads' = [threads EXCEPT ![loop_id] = "stopping"]
                 /\ UNCHANGED <<units, sessions>>
       ELSE UNCHANGED <<threads, units, sessions>>
    /\ lock_owner' = EmptyMap
    /\ IF terminate_processes /\ DOMAIN server_procs # {}
       THEN /\ server_procs' = EmptyMap
            /\ alive' = alive \ Range(server_procs)
       ELSE UNCHANGED <<server_procs, alive>>
    /\ remote_tool_to_server' = EmptyMap
    /\ remote_tool_descriptions' = EmptyMap
    /\ server_configs' = <<>>
    /\ server_persistent' = EmptyMap
    /\ persistent_sessions' = EmptyMap
    /\ server_locks' = {}
    /\ started' = FALSE
    /\ last_call' = Call("stop", <<>>, "", terminate_processes, "ok", "")
    /\ UNCHANGED <<name_to_tool, remote_tool_schemas, launched>>

----------------------------------------------------------------------------
(* The parser on planner outputs                                           *)

MaxLines == 4

ParserLines ==
    { <<>>,
      BEGIN_TOKEN,
      <<" ","E","N","D">>,
      <<"Q","U","E","R","Y","(","p","i","n","g","(",")",")">>,
      <<"t","a","s","k","(","f","(","a",",","b",")",")">>,
      <<"Q","U","E","R","Y","(","f","(","g","(","x",")",")",")">>,
      <<"Q","U","E","R","Y","(","t","e","x","t",")">>,
      <<"F","O","O","(","f","(","a",")",")">>,
      <<"o","o","p","s">> }

ParserTexts ==
    { Join(ls, "\n") : ls \in UNION { [1..n -> ParserLines] : n \in 0..MaxLines } }

\* the planner has returned its text (OrchestratorLLM.plan)
InitParser ==
    /\ InitLayer
    /\ InitBind
    /\ InitOs
    /\ InitAsync
    /\ llm_output \in ParserTexts
    /\ parse_result = NoParse
    /\ events = <<>>
    /\ ev_index = 0
    /\ raised = ""
    /\ submitted = <<>>
    /\ pc = "planned"

\* Orchestrator.process_user_request, step 2: parse into events
ParseLlmOutput ==
    /\ pc = "planned"
    /\ parse_result' = parse_llm_output(llm_output)
    /\ pc' = "parsed"
    /\ UNCHANGED <<async_vars, llm_output, dispatch_vars, layer_vars, bind_vars, os_vars,
                   last_call>>

NextParser == ParseLlmOutput

SpecParser == InitParser /\ [][NextParser]_vars

----------------------------------------------------------------------------
(* The argument binder on schemas and positional lists                     *)

MaxParams == 2
MaxArgs == 3

ParamPool == <<"issue_key", "jql", "max_results", "fields">>

\* the sequences of distinct elements of S
RECURSIVE Arrangements(_)
Arrangements(S) ==
    {<<>>} \cup UNION { { <<x>> \o t : t \in Arrangements(S \ {x}) } : x \in S }

\* schemas as FastMCP reports them: the declared parameters in order, and a
\* required list naming some of them
Schemas ==
    UNION { { [properties |-> SubSeq(ParamPool, 1, n), required |-> r] :
                r \in Arrangements({ ParamPool[i] : i \in 1..n }) } :
            n \in 0..(IF MaxParams <= Len(ParamPool) THEN MaxParams ELSE Len(ParamPool)) }

\* the literal argument strings: "", "a" and "b"
ArgValues == { <<>>, <<"a">>, <<"b">> }

ArgLists == UNION { [1..k -> ArgValues] : k \in 0..MaxArgs }

\* a started layer whose discovery found the tool GET with some schema
InitBinder ==
    /\ InitOrchestrator
    /\ InitBind
    /\ name_to_tool = [n \in {PING} |-> PingTool]
    /\ \E s \in Schemas :
           /\ remote_tool_to_server = [t \in {GET} |-> "jira"]
           /\ remote_tool_descriptions = [t \in {GET} |-> "issue by key"]
           /\ remote_tool_schemas = [t \in {GET} |-> s]
    /\ server_configs = <<JiraServer>>
    /\ server_procs = [n \in {"jira"} |-> 1]
    /\ server_persistent = [n \in {"jira"} |-> FALSE]
    /\ persistent_sessions = EmptyMap
    /\ server_locks = {"jira"}
    /\ loop = "running"
    /\ loop_thread = "thread"
    /\ started = TRUE
    /\ alive = {1}
    /\ launched = 1
    /\ threads = [t \in {1} |-> "running"]
    /\ loop_id = 1
    /\ units = <<>>
    /\ sessions = <<>>
    /\ lock_owner = [n \in {"jira"} |-> 0]
    /\ last_call = [Call("start", <<>>, "", FALSE, "ok", "started")
                        EXCEPT !.listed = << <<>> >>]
    /\ pc = "idle"

\* a caller binds a positional list for a tool
BuildSchema ==
    /\ pc = "idle"
    /\ \E tool_name \in {GET, PING}, list_of_args \in ArgLists :
           bind_last' = [tool |-> tool_name, args |-> list_of_args,
                         outcome |-> build_schema(remote_tool_schemas, tool_name,
                                                  list_of_args)]
    /\ bind_again' = NoBind
    /\ UNCHANGED <<async_vars, parser_vars, pc, dispatch_vars, layer_vars, os_vars, last_call>>

\* the caller binds the same list for the same tool once more
BuildSchemaAgain ==
    /\ pc = "idle"
    /\ bind_last # NoBind
    /\ bind_again' = [tool |-> bind_last.tool, args |-> bind_last.args,
                      outcome |-> build_schema(remote_tool_schemas, bind_last.tool,
                                               bind_last.args)]
    /\ UNCHANGED <<async_vars, parser_vars, pc, dispatch_vars, layer_vars, bind_last, os_vars,
                   last_call>>

NextBinder == BuildSchema \/ BuildSchemaAgain

SpecBinder == InitBinder /\ [][NextBinder]_vars

----------------------------------------------------------------------------
(* Start-up, then the request loop: plan, parse, dispatch                  *)

MaxCommands == 2

\* child processes created over the layer's life
MaxLaunches == 2

\* the command lines the planner writes between BEGIN and END
DispatchLines ==
    { <<"Q","U","E","R","Y","(","p","i","n","g","(",")",")">>,
      <<"T","A","S","K","(","g","e","t","(","K","1",")",")">>,
      <<"Q","U","E","R","Y","(","g","e","t","(",")",")">>,
      <<"Q","U","E","R","Y","(","f","i","n","d","(","q",",","5",")",")">>,
      <<"Q","U","E","R","Y","(","n","o","(","a",")",")">>,
      <<"E","R","R","O","R","(","e","(","m",")",")">> }

DispatchTexts ==
    { Join(<<BEGIN_TOKEN>> \o ls \o <<END_TOKEN>>, "\n") :
          ls \in UNION { [1..n -> DispatchLines] : n \in 0..MaxCommands } }

\* self._parser.parse_llm_output(llm_output) for each of these texts,
\* worked out once
DispatchParses == [text \in DispatchTexts |-> parse_llm_output(text)] @@ EmptyMap

InitDispatch ==
    /\ InitLayer
    /\ InitOrchestrator
    /\ InitBind
    /\ InitOs
    /\ InitAsync
    /\ pc = "init"

\* McpLayer.start(config_path), from Orchestrator.initialize, when it runs to
\* its end: every child process launches, the loop thread runs, discovery
\* merges what each server lists, and the layer is started
Start ==
    /\ pc = "init"
    /\ ~started
    /\ \E cfg \in Configs : \E listing \in ListingChoices(cfg) :
           /\ launched + Cardinality(WithCommand(cfg, Len(cfg))) <= MaxLaunches
           /\ McpStart(TRUE, cfg, 0, TRUE, listing)
    /\ pc' = "idle"
    /\ UNCHANGED <<parser_vars, dispatch_vars, bind_vars>>

\* McpLayer.start when a child process cannot be launched (_launch_process
\* raises before the loop thread exists) or the loop never runs
\* (_cleanup_processes, then RuntimeError): initialize returns False and the
\* application ends without a request loop
StartFails ==
    /\ pc = "init"
    /\ ~started
    /\ \E cfg \in Configs : \E fails_at \in 0..Len(cfg), loop_ok \in BOOLEAN :
           /\ fails_at # 0 => cfg[fails_at].command
           /\ fails_at # 0 \/ ~loop_ok
           /\ launched + Cardinality(WithCommand(cfg, Len(cfg))) <= MaxLaunches
           /\ McpStart(TRUE, cfg, fails_at, loop_ok, [i \in 1..Len(cfg) |-> <<>>])
    /\ raised' = last_call'.outcome.kind
    /\ pc' = "aborted"
    /\ UNCHANGED <<parser_vars, events, ev_index, submitted, bind_vars>>

WithoutResult_stale(parsed) ==
    [i \in 1..Len(parsed) |->
        [command_type |-> parsed[i].command_type,
         tool_name |-> parsed[i].tool_name,
         tool_args |-> parsed[i].tool_args,
         raw_command |-> parsed[i].raw_command,
         line_number |-> parsed[i].line_number,
         result |-> "stale"]]

\* ParsedEvent objects as execute_loop receives them: no result attribute yet
WithoutResult(parsed) ==
    [i \in 1..Len(parsed) |->
        [command_type |-> parsed[i].command_type,
         tool_name |-> parsed[i].tool_name,
         tool_args |-> parsed[i].tool_args,
         raw_command |-> parsed[i].raw_command,
         line_number |-> parsed[i].line_number,
         result |-> NoEventResult]]

SetResult_dropped(evs, i, result) == evs

\* event.result = result
SetResult(evs, i, result) ==
    [evs EXCEPT ![i] = [@ EXCEPT !.result = result]]

\* Orchestrator.process_user_request: the planner returns text, the parser
\* turns it into events or raises, which ends the request
ProcessUserRequest ==
    /\ pc = "idle"
    /\ \E text \in DispatchTexts :
           LET r == DispatchParses[text]
           IN  /\ llm_output' = text
               /\ parse_result' = r
               /\ events' = WithoutResult(r.events)
               /\ IF r.kind = "ok"
                  THEN /\ raised' = ""
                       /\ ev_index' = 1
                       /\ pc' = "dispatch"
                  ELSE /\ raised' = r.kind
                       /\ ev_index' = 0
                       /\ pc' = "idle"
    /\ submitted' = <<>>
    /\ UNCHANGED <<async_vars, layer_vars, bind_vars, os_vars, last_call>>

QUERY == <<"Q","U","E","R","Y">>
TASK == <<"T","A","S","K">>

\* one iteration of Orchestrator.execute_loop, up to the point where
\* McpLayer.execute returns, raises, or blocks in _run_coro_sync
ExecuteLoop ==
    /\ pc = "dispatch"
    /\ ev_index <= Len(events)
    /\ LET event == events[ev_index]
           tool_arg_schema == build_schema(remote_tool_schemas, event.tool_name,
                                           event.tool_args)
           route == execute(name_to_tool, remote_tool_to_server, started, loop,
                            event.tool_name)
       IN  IF event.command_type \in {TASK, QUERY}
           THEN IF tool_arg_schema.kind # "ok"
                THEN /\ raised' = tool_arg_schema.kind
                     /\ pc' = "idle"
                     /\ UNCHANGED <<events, ev_index, submitted>>
                ELSE IF route.kind = "local"
                THEN /\ events' = SetResult(events, ev_index,
                                            Invoke(route.via, tool_arg_schema.value))
                     /\ ev_index' = ev_index + 1
                     /\ UNCHANGED <<raised, pc, submitted>>
                ELSE IF route.kind \in {"KeyError", "RuntimeError"}
                THEN /\ raised' = route.kind
                     /\ pc' = "idle"
                     /\ UNCHANGED <<events, ev_index, submitted>>
                ELSE /\ submitted' = Append(submitted,
                                            [event |-> ev_index,
                                             server_name |-> route.via,
                                             tool_name |-> event.tool_name,
                                             arguments |-> tool_arg_schema.value])
                     /\ pc' = "waiting"
                     /\ UNCHANGED <<events, ev_index, raised>>
           ELSE \* CommandType.ERROR: print(event.message) on an object
                \* without that attribute
                /\ raised' = "AttributeError"
                /\ pc' = "idle"
                /\ UNCHANGED <<events, ev_index, submitted>>
    /\ UNCHANGED <<async_vars, parser_vars, layer_vars, bind_vars, os_vars, last_call>>

\* _run_coro_sync gives the remote call's text back: event.result = result
RemoteCallReturns ==
    /\ pc = "waiting"
    /\ events' = SetResult(events, ev_index, "content")
    /\ ev_index' = ev_index + 1
    /\ pc' = "dispatch"
    /\ UNCHANGED <<async_vars, parser_vars, raised, submitted, layer_vars, bind_vars, os_vars,
                   last_call>>

\* fut.result raises: the remote call failed, or the 60 s wait ran out
RemoteCallRaises ==
    /\ pc = "waiting"
    /\ \E e \in {"RemoteError", "TimeoutError"} : raised' = e
    /\ pc' = "idle"
    /\ UNCHANGED <<async_vars, parser_vars, events, ev_index, submitted, layer_vars, bind_vars,
                   os_vars, last_call>>

\* the for loop of execute_loop is exhausted: the request is done
ExecuteLoopReturns ==
    /\ pc = "dispatch"
    /\ ev_index > Len(events)
    /\ pc' = "idle"
    /\ UNCHANGED <<async_vars, parser_vars, dispatch_vars, layer_vars, bind_vars, os_vars,
                   last_call>>

NextDispatch ==
    \/ Start
    \/ StartFails
    \/ ProcessUserRequest
    \/ ExecuteLoop
    \/ RemoteCallReturns
    \/ RemoteCallRaises
    \/ ExecuteLoopReturns

SpecDispatch == InitDispatch /\ [][NextDispatch]_vars

----------------------------------------------------------------------------
(* A caller of the layer's public API: register_tool, start, stop, execute *)

MaxServers == 2
MaxSubmitted == 1

ServerPool == {JiraServer, WikiServer}

\* what _load_config can read: up to MaxServers distinct servers in any
\* order, or a list in which one name occurs twice
LayerConfigs ==
    { c \in Arrangements(ServerPool) : Len(c) <= MaxServers }
    \cup { <<JiraServer, JiraServer>> }

\* the descriptors a caller registers: empty, blank, used and fresh names
LocalTools ==
    { [name |-> n, description |-> "local", handler |-> h] :
          n \in { <<>>, <<" ">>, PING, GET, <<" ">> \o GET }, h \in {"h1", "h2"} }
    \ { [name |-> <<" ">> \o GET, description |-> "local", handler |-> "h2"] }

NOPE == <<"n","o">>

\* the names a caller executes
CallNames == { PING, GET, NOPE }

InitClient ==
    /\ InitLayer
    /\ InitOrchestrator
    /\ InitBind
    /\ InitOs
    /\ InitAsync
    /\ pc = "client"

\* McpLayer.register_tool(tool)
RegisterTool ==
    /\ pc = "client"
    /\ \E tool \in LocalTools :
           LET r == register_tool(name_to_tool, tool)
           IN  /\ name_to_tool' = r.local
               /\ last_call' = Call("register_tool", tool.name, tool.handler, FALSE,
                                    r.kind, "")
    /\ UNCHANGED <<async_vars, parser_vars, pc, dispatch_vars, remote_tool_to_server,
                   remote_tool_descriptions, remote_tool_schemas, server_configs,
                   server_procs, server_persistent, persistent_sessions,
                   server_locks, loop, loop_thread, started, bind_vars, os_vars>>

\* McpLayer.start(config_path)
StartCall ==
    /\ pc = "client"
    /\ \E path_exists \in BOOLEAN, servers \in LayerConfigs :
       \E fails_at \in {0} \cup WithCommand(servers, Len(servers)),
          loop_ok \in BOOLEAN, listing \in ListingChoices(servers) :
           /\ launched + Cardinality(WithCommand(servers, Len(servers))) <= MaxLaunches
           /\ McpStart(path_exists, servers, fails_at, loop_ok, listing)
    /\ UNCHANGED <<parser_vars, pc, dispatch_vars, bind_vars>>

\* McpLayer.stop(terminate_processes)
StopCall ==
    /\ pc = "client"
    /\ \E terminate_processes \in BOOLEAN : McpStop(terminate_processes, TRUE)
    /\ UNCHANGED <<parser_vars, pc, dispatch_vars, bind_vars>>

\* McpLayer.execute(tool_name): the local handler's answer, the exception,
\* or the call handed to _run_coro_sync and what fut.result gives back
ExecuteCall ==
    /\ pc = "client"
    /\ \E tool_name \in CallNames :
           LET route == execute(name_to_tool, remote_tool_to_server, started, loop,
                                tool_name)
           IN  IF route.kind = "local"
               THEN /\ last_call' = Call("execute", tool_name, "", FALSE, "ok",
                                         Invoke(route.via, EmptyMap))
                    /\ UNCHANGED submitted
               ELSE IF route.kind \in {"KeyError", "RuntimeError"}
               THEN /\ last_call' = Call("execute", tool_name, "", FALSE, route.kind, "")
                    /\ UNCHANGED submitted
               ELSE /\ Len(submitted) < MaxSubmitted
                    /\ submitted' = Append(submitted,
                                           [event |-> 0,
                                            server_name |-> route.via,
                                            tool_name |-> tool_name,
                                            arguments |-> EmptyMap])
                    /\ \E r \in {"ok", "RemoteError", "TimeoutError"} :
                           last_call' = Call("execute", tool_name, "", FALSE, r,
                                             IF r = "ok" THEN "content" ELSE "")
    /\ UNCHANGED <<async_vars, parser_vars, pc, events, ev_index, raised, layer_vars,
                   bind_vars, os_vars>>

NextClient ==
    \/ RegisterTool
    \/ StartCall
    \/ StopCall
    \/ ExecuteCall

SpecClient == InitClient /\ [][NextClient]_vars

----------------------------------------------------------------------------
(* The loop thread, the coroutines on it and their callers                 *)

\* coroutines handed to a loop over the layer's life
MaxUnits == 2

\* the configuration of this part: one server, which asks for a persistent
\* session
LoopConfig == <<WikiServer>>

\* a coroutine handed to run_coroutine_threadsafe: _async_call_remote_tool
\* ("call") or _ensure_persistent_session ("ensure") for a server, on the
\* loop of thread t; where it is suspended, the session it opened, the
\* session it returned, what the server did, how it ended, the text it
\* returned, and the state of the caller blocked in fut.result
Unit(kind, server, t, waiter) ==
    [kind |-> kind, server |-> server, loop |-> t, pc |-> "scheduled",
     session |-> 0, returned |-> 0, remote |-> "none", result |-> "pending",
     value |-> "", waiter |-> waiter]

\* a transport with a ClientSession on it, opened on the loop of thread t
Session(server, t) == [server |-> server, loop |-> t, live |-> TRUE, stored |-> FALSE]

\* the coroutine returns or raises; fut.result hands that to a caller who
\* is still waiting
Settle(u, result, remote, value) ==
    [u EXCEPT !.pc = "done", !.result = result, !.remote = remote, !.value = value,
              !.waiter = IF @ = "waiting"
                         THEN (IF result = "ok" THEN "returned" ELSE "raised")
                         ELSE @]

\* the exit handlers of a session and its transport have run
CloseSession(ss, j) == [ss EXCEPT ![j].live = FALSE]

\* the loop of the unit's thread is running, so the unit can be resumed
Runnable(u) ==
    /\ Pending(u)
    /\ u.loop \in DOMAIN threads
    /\ threads[u.loop] = "running"

LockFree_always(owner, server) == TRUE

\* async with lock: the per-server asyncio.Lock can be acquired
LockFree(owner, server) == owner[server] = 0

\* leaving async with lock
Release(owner, server, i) ==
    IF server \in DOMAIN owner /\ owner[server] = i
    THEN [owner EXCEPT ![server] = 0]
    ELSE owner

InitLoop ==
    /\ InitLayer
    /\ InitOrchestrator
    /\ InitBind
    /\ InitOs
    /\ InitAsync
    /\ pc = "client"

\* McpLayer.start(config_path) in an environment where the file is there,
\* every launch works, the loop runs and the server lists its tool
LoopStart ==
    /\ pc = "client"
    /\ launched + Cardinality(WithCommand(LoopConfig, Len(LoopConfig))) <= MaxLaunches
    /\ McpStart(TRUE, LoopConfig, 0, TRUE, <<WikiListing>>)
    /\ UNCHANGED <<parser_vars, pc, dispatch_vars, bind_vars>>

\* McpLayer.stop(): the bounded join sees the thread end, or times out
LoopStop ==
    /\ pc = "client"
    /\ \E join_ok \in BOOLEAN : McpStop(TRUE, join_ok)
    /\ UNCHANGED <<parser_vars, pc, dispatch_vars, bind_vars>>

\* McpLayer.execute(tool_name) up to run_coroutine_threadsafe: the
\* exception raised at once, or the coroutine handed to the loop with the
\* caller blocked in fut.result(timeout=60.0)
ExecuteRemote ==
    /\ pc = "client"
    /\ LET route == execute(name_to_tool, remote_tool_to_server, started, loop, GET)
       IN  IF route.kind = "remote"
           THEN /\ Len(units) < MaxUnits
                /\ units' = Append(units, Unit("call", route.via, loop_id, "waiting"))
                /\ UNCHANGED last_call
           ELSE /\ last_call' = Call("execute", GET, "", FALSE, route.kind, "")
                /\ UNCHANGED units
    /\ UNCHANGED <<parser_vars, pc, dispatch_vars, layer_vars, bind_vars, os_vars,
                   threads, loop_id, sessions, lock_owner>>

\* _ensure_persistent_session(server_name, sse_url) handed to the running
\* loop by a caller of its own: nothing in the layer calls it
EnsureSession ==
    /\ pc = "client"
    /\ started
    /\ loop_id \in DOMAIN threads
    /\ Len(units) < MaxUnits
    /\ \E s \in server_locks :
           units' = Append(units, Unit("ensure", s, loop_id, "none"))
    /\ UNCHANGED <<parser_vars, pc, dispatch_vars, layer_vars, bind_vars, os_vars,
                   last_call, threads, loop_id, sessions, lock_owner>>

\* _async_call_remote_tool resumed: it opens a transport and a session of
\* its own; then it initializes the session, calls the tool and returns the
\* text of the answer, leaving both async with blocks on every path.  The
\* server answers, reports an error of the tool in its answer (the tools of
\* MCP/jira_mcp_server.py return "Error: ..."), or the handshake or the call
\* fails
CallStep ==
    /\ \E i \in DOMAIN units :
           LET u == units[i]
           IN  /\ u.kind = "call"
               /\ Runnable(u)
               /\ IF u.pc = "scheduled"
                  THEN IF ~\E k \in DOMAIN server_configs :
                               server_configs[k].name = u.server
                       THEN /\ units' = [units EXCEPT
                                            ![i] = Settle(u, "raise", "none", "")]
                            /\ UNCHANGED sessions
                       ELSE \E ok \in BOOLEAN :
                                IF ok
                                THEN /\ sessions' = Append(sessions,
                                                           Session(u.server, u.loop))
                                     /\ units' = [units EXCEPT
                                                     ![i].pc = "opened",
                                                     ![i].session = Len(sessions) + 1]
                                ELSE /\ units' = [units EXCEPT
                                                     ![i] = Settle(u, "raise",
                                                                   "transport", "")]
                                     /\ UNCHANGED sessions
                  ELSE \E answer \in {"ok", "tool_error", "handshake", "call_error"} :
                           /\ units' = [units EXCEPT
                                  ![i] = IF answer = "ok"
                                         THEN Settle(u, "ok", answer, "content")
                                         ELSE IF answer = "tool_error"
                                         THEN Settle(u, "ok", answer, "Error: ...")
                                         ELSE Settle(u, "raise", answer, "")]
                           /\ sessions' = CloseSession(sessions, u.session)
    /\ UNCHANGED <<parser_vars, pc, dispatch_vars, layer_vars, bind_vars, os_vars,
                   last_call, threads, loop_id, lock_owner>>

\* _ensure_persistent_session resumed once: under the server's lock it
\* returns the stored session, or opens the transport, opens the session,
\* initializes it and stores the bundle, suspending at each of the three,
\* each of which can fail
EnsureStep ==
    /\ \E i \in DOMAIN units :
           LET u == units[i]
               s == u.server
           IN  /\ u.kind = "ensure"
               /\ Runnable(u)
               /\ IF u.pc = "scheduled"
                  THEN IF s \notin DOMAIN lock_owner
                       THEN /\ units' = [units EXCEPT
                                            ![i] = Settle(u, "raise", "none", "")]
                            /\ UNCHANGED <<sessions, lock_owner, persistent_sessions>>
                       ELSE /\ LockFree(lock_owner, s)
                            /\ IF s \in DOMAIN persistent_sessions
                                  /\ ~persistent_sessions[s].closed
                               THEN /\ units' = [units EXCEPT
                                           ![i] = [Settle(u, "ok", "none", "")
                                                      EXCEPT !.returned =
                                                          persistent_sessions[s].session]]
                                    /\ UNCHANGED lock_owner
                               ELSE /\ units' = [units EXCEPT ![i].pc = "transport"]
                                    /\ lock_owner' = [lock_owner EXCEPT ![s] = i]
                            /\ UNCHANGED <<sessions, persistent_sessions>>
                  ELSE \E ok \in BOOLEAN :
                           IF ~ok
                           THEN /\ units' = [units EXCEPT
                                       ![i] = Settle(u, "raise",
                                                     IF u.pc = "handshake"
                                                     THEN "handshake" ELSE "transport",
                                                     "")]
                                /\ lock_owner' = Release(lock_owner, s, i)
                                /\ UNCHANGED <<sessions, persistent_sessions>>
                           ELSE IF u.pc = "transport"
                           THEN /\ sessions' = Append(sessions, Session(s, u.loop))
                                /\ units' = [units EXCEPT
                                                ![i].pc = "session",
                                                ![i].session = Len(sessions) + 1]
                                /\ UNCHANGED <<lock_owner, persistent_sessions>>
                           ELSE IF u.pc = "session"
                           THEN /\ units' = [units EXCEPT ![i].pc = "handshake"]
                                /\ UNCHANGED <<sessions, lock_owner, persistent_sessions>>
                           ELSE /\ persistent_sessions' =
                                       Put(persistent_sessions, s,
                                           [session |-> u.session, closed |-> FALSE])
                                /\ sessions' = [sessions EXCEPT ![u.session].stored = TRUE]
                                /\ units' = [units EXCEPT
                                       ![i] = [Settle(u, "ok", "ok", "")
                                                  EXCEPT !.returned = u.session]]
                                /\ lock_owner' = Release(lock_owner, s, i)
    /\ UNCHANGED <<parser_vars, pc, dispatch_vars, name_to_tool, remote_tool_to_server,
                   remote_tool_descriptions, remote_tool_schemas, server_configs,
                   server_procs, server_persistent, server_locks, loop, loop_thread,
                   started, bind_vars, os_vars, last_call, threads, loop_id>>

\* fut.result(timeout=timeout_seconds) gives up: the caller gets
\* TimeoutError; nothing is done about the coroutine
TimeoutExpires ==
    /\ \E i \in DOMAIN units :
           /\ units[i].waiter = "waiting"
           /\ Pending(units[i])
           /\ units' = [units EXCEPT ![i].waiter = "timed_out"]
    /\ UNCHANGED <<parser_vars, pc, dispatch_vars, layer_vars, bind_vars, os_vars,
                   last_call, threads, loop_id, sessions, lock_owner>>

\* a thread that outlived stop's join leaves run_forever: _runner cancels
\* and gathers what is pending, closes the loop and ends
LoopThreadExits ==
    /\ \E t \in DOMAIN threads :
           /\ threads[t] = "stopping"
           /\ threads' = [x \in DOMAIN threads \ {t} |-> threads[x]]
           /\ units' = Cancelled(units, t)
           /\ sessions' = ClosedByDrain(sessions, units, t)
    /\ UNCHANGED <<parser_vars, pc, dispatch_vars, layer_vars, bind_vars, os_vars,
                   last_call, loop_id, lock_owner>>

NextLoop ==
    \/ LoopStart
    \/ LoopStop
    \/ ExecuteRemote
    \/ EnsureSession
    \/ CallStep
    \/ EnsureStep
    \/ TimeoutExpires
    \/ LoopThreadExits

SpecLoop == InitLoop /\ [][NextLoop]_vars

\* the same layer with callers of _ensure_persistent_session only
NextEnsure ==
    \/ LoopStart
    \/ LoopStop
    \/ EnsureSession
    \/ EnsureStep
    \/ LoopThreadExits

SpecEnsure == InitLoop /\ [][NextEnsure]_vars

----------------------------------------------------------------------------
(* The command protocol as section 4.7 of the specification states it,     *)
(* over the lines of the original text                                     *)

OrigLines == Split(llm_output, "\n")

IsBlankLine(l) == Strip(l) = <<>>
IsBeginLine(l) == Strip(l) = BEGIN_TOKEN
IsEndLine(l) == Strip(l) = END_TOKEN

\* 1-based number of the first line satisfying P, 0 when there is none
FirstLine(lines, P(_)) ==
    IF \E i \in 1..Len(lines) : P(lines[i])
    THEN CHOOSE i \in 1..Len(lines) :
             P(lines[i]) /\ \A j \in 1..(i - 1) : ~P(lines[j])
    ELSE 0

FirstBegin == FirstLine(OrigLines, IsBeginLine)
FirstEnd == FirstLine(OrigLines, IsEndLine)

\* the first BEGIN line comes strictly before the first END line
MarkersInOrder == FirstBegin >= 1 /\ FirstBegin < FirstEnd

\* numbers of the non-blank lines strictly between the markers
BlockLineSet == { i \in (FirstBegin + 1)..(FirstEnd - 1) : ~IsBlankLine(OrigLines[i]) }

\* the k-th of them, in source order
BlockLine(k) ==
    CHOOSE i \in BlockLineSet : Cardinality({ j \in BlockLineSet : j <= i }) = k

\* every prefix of s closes no more parentheses than it opened, and s closes all
Balanced(s) ==
    LET depth(n) == Cardinality({ i \in 1..n : s[i] = "(" })
                    - Cardinality({ i \in 1..n : s[i] = ")" })
    IN  /\ \A n \in 1..Len(s) : depth(n) >= 0
        /\ depth(Len(s)) = 0

\* position of the first "(" of s, 0 when there is none
FirstOpen(s) ==
    IF \E i \in 1..Len(s) : s[i] = "("
    THEN CHOOSE i \in 1..Len(s) : s[i] = "(" /\ \A j \in 1..(i - 1) : s[j] # "("
    ELSE 0

\* s is name(args): a non-empty name of word characters, then a
\* parenthesised argument text whose own parentheses are balanced
IsCall(s) ==
    LET o == FirstOpen(s)
    IN  /\ o >= 2
        /\ \A i \in 1..(o - 1) : s[i] \in WordChars
        /\ s[Len(s)] = ")"
        /\ Balanced(SubSeq(s, o + 1, Len(s) - 1))

\* the text between the outer parentheses of TYPE( ... ), trimmed
InnerCall(l) ==
    LET s == Strip(l)
    IN  Strip(SubSeq(s, FirstOpen(s) + 1, Len(s) - 1))

\* the argument text of the inner call tool( ... )
ArgText(l) ==
    LET c == InnerCall(l)
    IN  SubSeq(c, FirstOpen(c) + 1, Len(c) - 1)

\* l is TYPE(tool(args)) with TYPE, in any case, one of QUERY, TASK, ERROR
WellFormedLine(l) ==
    LET s == Strip(l)
        o == FirstOpen(s)
    IN  /\ IsCall(s)
        /\ Upper(SubSeq(s, 1, o - 1)) \in CommandType
        /\ IsCall(InnerCall(l))

\* a BEGIN line, a later END line, only blank and well-formed lines between
WellFormedBlock ==
    /\ MarkersInOrder
    /\ \A i \in BlockLineSet : WellFormedLine(OrigLines[i])

\* the first BEGIN line is the only BEGIN line before the first END line
SingleBegin ==
    /\ MarkersInOrder
    /\ \A i \in (FirstBegin + 1)..(FirstEnd - 1) : ~IsBeginLine(OrigLines[i])

\* C1: for a well-formed block the parser returns one event per non-blank
\* line between the markers, in source order, each carrying the 1-based
\* number of its line in the original text (leading blank lines included).
C1_OriginalLineNumbers ==
    (pc = "parsed" /\ WellFormedBlock) =>
        /\ parse_result.kind = "ok"
        /\ Len(parse_result.events) = Cardinality(BlockLineSet)
        /\ \A k \in 1..Cardinality(BlockLineSet) :
               /\ parse_result.events[k].raw_command = Strip(OrigLines[BlockLine(k)])
               /\ parse_result.events[k].line_number = BlockLine(k)

\* C2: without a BEGIN line, without an END line, or without a BEGIN line
\* strictly before the first END line, parsing fails with FailParser and
\* returns no events.
C2_MarkerFailure ==
    (pc = "parsed" /\ ~MarkersInOrder) =>
        /\ parse_result.kind = "FailParser"
        /\ parse_result.events = <<>>

\* C2 witness: both markers occur, the first END precedes every BEGIN, and
\* the parse was rejected.
C2_Witness ==
    /\ pc = "parsed"
    /\ FirstBegin >= 1
    /\ FirstEnd >= 1
    /\ FirstEnd < FirstBegin
    /\ parse_result.kind = "FailParser"

\* C3: a non-blank line between the markers that is not TYPE(tool(args))
\* makes the parse fail with FailParser naming that line's number, never
\* with another error.  Stated for texts whose first line is not blank and
\* that hold one BEGIN, so that line numbering and block delimiting are
\* not in question.
C3_TypedFailureOnBadLine ==
    (/\ pc = "parsed"
     /\ ~IsBlankLine(OrigLines[1])
     /\ SingleBegin
     /\ \E i \in BlockLineSet : ~WellFormedLine(OrigLines[i])) =>
        /\ parse_result.kind = "FailParser"
        /\ parse_result.events = <<>>
        /\ parse_result.line =
               CHOOSE i \in BlockLineSet :
                   /\ ~WellFormedLine(OrigLines[i])
                   /\ \A j \in BlockLineSet : j < i => WellFormedLine(OrigLines[j])

\* C4: the block runs from the first BEGIN to the first END; a second BEGIN
\* between them is a non-matching line, so the whole output is rejected and
\* no line after the first BEGIN is skipped.
C4_SecondBeginRejected ==
    (/\ pc = "parsed"
     /\ MarkersInOrder
     /\ \E i \in (FirstBegin + 1)..(FirstEnd - 1) : IsBeginLine(OrigLines[i])) =>
        parse_result.kind # "ok"

\* C5: round trip: for a well-formed block, event k's tool_name, "(", its
\* tool_args joined with "," and ")" spell the inner call text of line k.
C5_RoundTrip ==
    (pc = "parsed" /\ WellFormedBlock) =>
        /\ parse_result.kind = "ok"
        /\ Len(parse_result.events) = Cardinality(BlockLineSet)
        /\ \A k \in 1..Cardinality(BlockLineSet) :
               LET e == parse_result.events[k]
               IN  e.tool_name \o <<"(">> \o Join(e.tool_args, ",") \o <<")">>
                       = InnerCall(OrigLines[BlockLine(k)])

\* C6: a line whose inner call has an empty argument list, as QUERY(ping()),
\* parses to an event whose tool_args is the empty list.
C6_EmptyArgumentList ==
    (pc = "parsed" /\ WellFormedBlock) =>
        \A k \in 1..Cardinality(BlockLineSet) :
            ArgText(OrigLines[BlockLine(k)]) = <<>> =>
                /\ parse_result.kind = "ok"
                /\ Len(parse_result.events) >= k
                /\ parse_result.events[k].tool_args = <<>>

----------------------------------------------------------------------------
(* Dispatch of parsed events (sections 4.6 and 4.8 of the specification)   *)

\* execute_loop has dealt with event k: it went past it, or stopped on it
Dispatched(k) ==
    \/ k < ev_index
    \/ k = ev_index /\ pc = "idle" /\ raised # ""

\* C7: a Query or Task event naming a local built-in, once dispatched,
\* carries the built-in handler's result, whatever discovery found.
C7_LocalBuiltinDispatched ==
    \A k \in 1..Len(events) :
        (/\ Dispatched(k)
         /\ events[k].command_type \in {QUERY, TASK}
         /\ events[k].tool_name \in DOMAIN name_to_tool) =>
            events[k].result = ping_handler(EmptyMap)

\* number of arguments the planner wrote in the inner call of line l:
\* none for tool(), else one more than the commas outside parentheses
SuppliedCount(l) ==
    LET a == ArgText(l)
        depth(n) == Cardinality({ i \in 1..n : a[i] = "(" })
                    - Cardinality({ i \in 1..n : a[i] = ")" })
    IN  IF Strip(a) = <<>> THEN 0
        ELSE 1 + Cardinality({ i \in 1..Len(a) : a[i] = "," /\ depth(i) = 0 })

\* C10: every remote call handed to the scheduler bridge is for a line in
\* which the planner supplied a value for each required parameter of the
\* tool; a line like tool() for a tool with a required parameter ends in
\* the binding error instead.
C10_NoRemoteCallWithoutRequired ==
    \A n \in 1..Len(submitted) :
        LET call == submitted[n]
            schema == remote_tool_schemas[call.tool_name]
        IN  \A i \in 1..Len(schema.properties) :
                (\E j \in 1..Len(schema.required) :
                     schema.required[j] = schema.properties[i]) =>
                    i <= SuppliedCount(events[call.event].raw_command)

----------------------------------------------------------------------------
(* The argument binder (section 4.6 of the specification)                  *)

\* the smaller of two numbers
Min(a, b) == IF a <= b THEN a ELSE b

\* C8: build_schema binds positionally: with parameters p1..pn declared and
\* a1..ak supplied, the result maps pi to ai for every i up to both k and
\* n, and holds no other key.
C8_PositionalBinding ==
    (bind_last.outcome.kind = "ok" /\ bind_last.tool \in DOMAIN remote_tool_schemas) =>
        LET properties == remote_tool_schemas[bind_last.tool].properties
            m == Min(Len(bind_last.args), Len(properties))
        IN  /\ DOMAIN bind_last.outcome.value = { properties[i] : i \in 1..m }
            /\ \A i \in 1..m : bind_last.outcome.value[properties[i]] = bind_last.args[i]

\* the required names of call c's schema that no supplied position covers
Uncovered(c) ==
    LET schema == remote_tool_schemas[c.tool]
    IN  { schema.properties[i] :
              i \in { j \in 1..Len(schema.properties) :
                        /\ j > Len(c.args)
                        /\ \E r \in 1..Len(schema.required) :
                               schema.required[r] = schema.properties[j] } }

\* the state part of C9
BindRepeatable ==
    /\ bind_again # NoBind => bind_again = bind_last
    /\ \A c \in {bind_last, bind_again} :
           (c.tool \in DOMAIN remote_tool_schemas /\ Uncovered(c) # {}) =>
               /\ c.outcome.kind = "ValueError"
               /\ c.outcome.missing \in Uncovered(c)

----------------------------------------------------------------------------
(* The capability directory and the layer's life cycle (sections 4.1, 4.2, *)
(* 4.5, 6 and 7 of the specification), for a caller of the public API      *)

\* the step is a call of op: every call rewrites last_call
Calls(op) == last_call'.op = op

\* name is empty, or some local tool is registered under it or carries it
NameUnusable(name) ==
    \/ name = <<>>
    \/ name \in DOMAIN name_to_tool
    \/ \E k \in DOMAIN name_to_tool : name_to_tool[k].name = name

\* C11: register_tool raises ValueError for a descriptor whose name is empty
\* or already used by a local tool, and a registration that raises leaves
\* _name_to_tool as it was: the earlier descriptor and handler stay.
C11_RegistrationRejected ==
    [][Calls("register_tool") =>
          /\ NameUnusable(last_call'.name) => last_call'.outcome.kind = "ValueError"
          /\ last_call'.outcome.kind = "ValueError" => name_to_tool' = name_to_tool
          /\ UNCHANGED <<remote_tool_to_server, remote_tool_descriptions,
                         remote_tool_schemas>>]_vars

\* C11 witness: get is registered with one handler, and a registration of
\* get with another handler was just rejected.
C11_Witness ==
    /\ last_call.op = "register_tool"
    /\ last_call.name = GET
    /\ last_call.outcome.kind = "ValueError"
    /\ GET \in DOMAIN name_to_tool
    /\ name_to_tool[GET].handler # last_call.handler

\* the latest call was a start that went through discovery
JustDiscovered == last_call.op = "start" /\ last_call.outcome.value = "started"

\* C12: after a start with discovery, whatever the order of the servers, a
\* name that was registered locally beforehand has no routing, description
\* or schema entry, and execute of a local name gives the local handler's
\* answer.
C12_LocalPrecedence ==
    /\ JustDiscovered =>
           \A n \in DOMAIN name_to_tool :
               /\ n \notin DOMAIN remote_tool_to_server
               /\ n \notin DOMAIN remote_tool_descriptions
               /\ n \notin DOMAIN remote_tool_schemas
    /\ (last_call.op = "execute" /\ last_call.name \in DOMAIN name_to_tool) =>
           /\ last_call.outcome.kind = "ok"
           /\ last_call.outcome.value =
                  Invoke(name_to_tool[last_call.name].handler, EmptyMap)

\* C13: list_llm_tools never holds two entries with the same name: no name
\* is at once a local and a remote capability.
C13_UniqueNames ==
    LET listing == list_llm_tools(name_to_tool, remote_tool_descriptions)
    IN  /\ \A e \in BagToSet(listing) : CopiesIn(e, listing) = 1
        /\ \A e1, e2 \in BagToSet(listing) : e1.name = e2.name => e1 = e2
        /\ DOMAIN name_to_tool \cap DOMAIN remote_tool_to_server = {}

\* the positions of the servers whose listing, in the latest discovery,
\* held the name n
ListedBy(n) ==
    { i \in 1..Len(last_call.listed) :
          \E k \in 1..Len(last_call.listed[i]) : last_call.listed[i][k].name = n }

\* the entry for n in the listing of server i
ListedEntry(i, n) ==
    LET l == last_call.listed[i]
    IN  l[CHOOSE k \in 1..Len(l) : l[k].name = n]

\* the largest element of a non-empty set of numbers
LastOf(S) == CHOOSE x \in S : \A y \in S : y <= x

\* the names some server listed in the latest discovery
ListedNames == { n \in {GET, FIND, PING} : ListedBy(n) # {} }

\* C14: after discovery a non-local name that one or more servers listed is
\* routed to the last of them in configuration order, and its description
\* and schema are the ones that server reported.
C14_LastServerWins ==
    JustDiscovered =>
        \A n \in ListedNames \ DOMAIN name_to_tool :
            LET i == LastOf(ListedBy(n))
            IN  /\ n \in DOMAIN remote_tool_to_server
                /\ remote_tool_to_server[n] = server_configs[i].name
                /\ remote_tool_descriptions[n] = ListedEntry(i, n).description
                /\ remote_tool_schemas[n] = ListedEntry(i, n).inputSchema

\* C14 witness: jira then wiki were configured, both listed get, and get is
\* routed to wiki.
C14_Witness ==
    /\ JustDiscovered
    /\ Len(server_configs) = 2
    /\ server_configs[2].name = "wiki"
    /\ ListedBy(GET) = {1, 2}
    /\ GET \notin DOMAIN name_to_tool
    /\ remote_tool_to_server[GET] = "wiki"

\* C15: in every layer state, execute of a name that is neither a local
\* tool nor a discovered remote one raises KeyError, hands nothing to
\* _run_coro_sync and changes no layer state.
C15_UnknownCapability ==
    [][(/\ Calls("execute")
        /\ last_call'.name \notin DOMAIN name_to_tool
        /\ last_call'.name \notin DOMAIN remote_tool_to_server) =>
           /\ last_call'.outcome.kind = "KeyError"
           /\ submitted' = submitted
           /\ UNCHANGED <<layer_vars, os_vars>>]_vars

\* C15 witness: after a start and a stop, with a schema still in place, an
\* unknown name was executed and KeyError came back.
C15_Witness ==
    /\ last_call.op = "execute"
    /\ last_call.name = NOPE
    /\ last_call.outcome.kind = "KeyError"
    /\ ~started
    /\ remote_tool_schemas # EmptyMap

\* the names the tool servers offer
RemoteBacked ==
    { JiraListing[i].name : i \in 1..Len(JiraListing) }
    \cup { WikiListing[i].name : i \in 1..Len(WikiListing) }

\* C16: execute of a remote-backed capability while the layer is not
\* started, before start or after stop, raises the RuntimeError 'McpLayer is
\* not started', not the KeyError of an unknown tool.
C16_NotStartedError ==
    (/\ last_call.op = "execute"
     /\ ~started
     /\ last_call.name \in RemoteBacked \ DOMAIN name_to_tool) =>
        last_call.outcome.kind = "RuntimeError"

\* the entries list_llm_tools gives for the local tools
LocalEntries ==
    { [name |-> name_to_tool[n].name, description |-> name_to_tool[n].description] :
          n \in DOMAIN name_to_tool }

\* C17: a start raises only before discovery (missing file, invalid
\* configuration, failed launch, loop not running); once the processes and
\* the loop are up it returns normally whatever listings fail, zero servers
\* included, and list_llm_tools then
\* holds exactly the local tools and, for each non-local name listed by a
\* server whose listing succeeded, one entry with a description such a
\* server reported; a failed listing adds nothing and stops no other server.
C17_DiscoveryContained ==
    /\ (last_call.op = "start" /\ last_call.outcome.kind # "ok") =>
           \* a start that raises has not reached discovery
           /\ last_call.outcome.kind \in
                  {"FileNotFoundError", "ValueError", "OSError", "RuntimeError"}
           /\ last_call.listed = <<>>
           /\ remote_tool_to_server = EmptyMap
           /\ ~started
    /\ (last_call.op = "start" /\ last_call.outcome.value = "started") =>
        /\ last_call.outcome.kind = "ok"
        /\ started
        /\ Len(last_call.listed) = Len(server_configs)
        /\ DOMAIN remote_tool_descriptions = ListedNames \ DOMAIN name_to_tool
        /\ DOMAIN remote_tool_to_server = ListedNames \ DOMAIN name_to_tool
        /\ BagToSet(list_llm_tools(name_to_tool, remote_tool_descriptions)) =
               LocalEntries \cup
               { [name |-> n, description |-> remote_tool_descriptions[n]] :
                     n \in ListedNames \ DOMAIN name_to_tool }
        /\ \A n \in ListedNames \ DOMAIN name_to_tool :
               \E i \in ListedBy(n) :
                   /\ remote_tool_descriptions[n] = ListedEntry(i, n).description
                   /\ remote_tool_to_server[n] = server_configs[i].name

\* C17 witness: jira's listing failed, wiki's succeeded, start returned and
\* get is offered through wiki next to the built-in.
C17_Witness ==
    /\ JustDiscovered
    /\ Len(server_configs) = 2
    /\ server_configs[1].name = "jira"
    /\ last_call.listed[1] = <<>>
    /\ last_call.listed[2] # <<>>
    /\ started
    /\ GET \in DOMAIN remote_tool_to_server
    /\ remote_tool_to_server[GET] = "wiki"
    /\ PING \in DOMAIN name_to_tool

\* C18: a start in which the launch of one server's child process failed
\* still returns normally with the layer started and its loop running, every
\* other configured command launched, and the built-in executable.
C18_LaunchFailureContained ==
    (last_call.op = "start" /\ last_call.flag) =>
        /\ last_call.outcome.kind = "ok"
        /\ started
        /\ loop = "running"
        /\ Cardinality(DOMAIN server_procs) >=
               Cardinality(WithCommand(server_configs, Len(server_configs))) - 1

\* C19: start on a started layer returns at once: no process is launched, no
\* thread or loop is created, no discovery runs, and the directory, the
\* configuration and the session tables stay as they are.
C19_StartIdempotent ==
    [][(Calls("start") /\ started) =>
           /\ last_call'.outcome.kind = "ok"
           /\ UNCHANGED <<layer_vars, os_vars>>]_vars

\* C19 witness: a started layer with a configured server and a child
\* process was started again.
C19_Witness ==
    /\ last_call.op = "start"
    /\ last_call.outcome.value = "already started"
    /\ started
    /\ server_configs # <<>>
    /\ alive # {}

\* C20: stop returns normally from every state, and after
\* stop(terminate_processes=True) no child process the layer launched is
\* recorded or alive, the loop is dropped, the routing and description
\* tables are empty and the layer is not started.
C20_StopCleansUp ==
    (last_call.op = "stop") =>
        /\ last_call.outcome.kind = "ok"
        /\ loop = "none"
        /\ loop_thread = "none"
        /\ remote_tool_to_server = EmptyMap
        /\ remote_tool_descriptions = EmptyMap
        /\ ~started
        /\ last_call.flag => (server_procs = EmptyMap /\ alive = {})

----------------------------------------------------------------------------
(* Claims C21 to C23: the dispatch loop                                    *)

ERROR == <<"E","R","R","O","R">>

\* C21: while execute_loop runs, exactly the events before its position
\* carry a result, and the remote calls it handed over are in list order, at
\* most one of them not yet answered: the one for the event it waits on.
C21_InOrderNoOverlap ==
    pc \in {"dispatch", "waiting"} =>
        /\ \A i \in 1..Len(events) :
               (events[i].result # NoEventResult) <=> (i < ev_index)
        /\ \A k \in 1..Len(submitted) :
               /\ submitted[k].event <= ev_index
               /\ submitted[k].event = ev_index =>
                      (k = Len(submitted) /\ pc = "waiting")
               /\ \A j \in 1..(k - 1) : submitted[j].event < submitted[k].event

\* C21 witness: two remote calls were made one after the other and both
\* results are stored.
C21_Witness ==
    /\ pc = "dispatch"
    /\ ev_index = 3
    /\ Len(submitted) = 2
    /\ events[1].result # NoEventResult
    /\ events[2].result # NoEventResult

\* execute_loop has stopped at event k without finishing the list
StoppedAt(k) ==
    /\ pc = "idle"
    /\ ev_index = k
    /\ k \in 1..Len(events)

\* C22: when execute_loop stops at an Error event, no exception has left
\* the loop: it ended by break after printing the planner's diagnostic.
C22_ErrorEventStops ==
    \A k \in 1..Len(events) :
        (StoppedAt(k) /\ events[k].command_type = ERROR) => raised = ""

\* C23: when dispatch stops at event k, exactly the events before k carry a
\* result; and while a dispatch runs a result once stored is never written
\* again.
C23_PartialResultsKept ==
    /\ [](\A k \in 1..Len(events) :
              StoppedAt(k) =>
                  \A i \in 1..Len(events) :
                      (events[i].result # NoEventResult) <=> (i < k))
    /\ [][(pc \in {"dispatch", "waiting"}) =>
              /\ Len(events') = Len(events)
              /\ \A i \in 1..Len(events) :
                     (events[i].result # NoEventResult) => (events'[i] = events[i])
         ]_vars

\* C23 witness: the first event's result is in place and dispatch stopped at
\* the second event.
C23_Witness ==
    /\ StoppedAt(2)
    /\ raised # ""
    /\ events[1].result # NoEventResult
    /\ events[2].result = NoEventResult

----------------------------------------------------------------------------
(* Claim C30: the three tables of the remote directory                     *)

\* C30: the names with a routing entry, the names with a description and
\* the names with a schema are the same set in every reachable state, so
\* build_schema resolves a remote schema only for a name that is routed.
C30_DirectoryConsistent ==
    /\ DOMAIN remote_tool_to_server = DOMAIN remote_tool_descriptions
    /\ DOMAIN remote_tool_descriptions = DOMAIN remote_tool_schemas
    /\ \A n \in CallNames :
           build_schema(remote_tool_schemas, n, <<>>).kind # "KeyError" =>
               n \in DOMAIN remote_tool_to_server

----------------------------------------------------------------------------
(* Claims C24 to C29: remote calls, sessions and the loop thread           *)

\* C24: execute returns a value to its caller only for a remote call that
\* the server answered without an error: a failed transport, a failed
\* handshake and an error reported for the tool call all reach the caller
\* as an exception.
C24_FailureSurfaced ==
    \A i \in DOMAIN units :
        (units[i].kind = "call" /\ units[i].waiter = "returned") =>
            units[i].remote = "ok"

\* the sessions the remote calls for server s have opened on the loop the
\* layer uses now
OpenedByCalls(s) ==
    { units[i].session : i \in { k \in DOMAIN units :
                                    /\ units[k].kind = "call"
                                    /\ units[k].server = s
                                    /\ units[k].loop = loop_id
                                    /\ units[k].session # 0 } }

\* C25: for a server configured as persistent the remote calls made since
\* start have opened at most one session between them, and once a call has
\* returned, a session is stored for the server and is still open.
C25_PersistentSessionReused ==
    \A s \in DOMAIN server_persistent :
        server_persistent[s] =>
            /\ Cardinality(OpenedByCalls(s)) <= 1
            /\ \A i \in DOMAIN units :
                   (/\ units[i].kind = "call"
                    /\ units[i].server = s
                    /\ units[i].loop = loop_id
                    /\ units[i].result = "ok") =>
                       /\ s \in DOMAIN persistent_sessions
                       /\ sessions[persistent_sessions[s].session].live

\* C26: a step that empties the session table leaves no session that was
\* stored in it open: the exit handlers of each have run.
C26_StopClosesSessions ==
    [][(persistent_sessions # EmptyMap /\ persistent_sessions' = EmptyMap) =>
           \A s \in DOMAIN persistent_sessions :
               ~sessions'[persistent_sessions[s].session].live]_vars

\* the _ensure_persistent_session units for server s on the loop of thread t
EnsureUnits(s, t) ==
    { i \in DOMAIN units :
          units[i].kind = "ensure" /\ units[i].server = s /\ units[i].loop = t }

\* the unit is between acquiring the server's lock and releasing it
InCritical(i) ==
    /\ Pending(units[i])
    /\ units[i].pc \in {"transport", "session", "handshake"}

\* C27: among the _ensure_persistent_session calls for one server on one
\* loop, in every interleaving, at most one is inside the check-and-create
\* step, at most one session was created and stored, every call that
\* returned has returned that one session, and a call that found it stored
\* opened none.
C27_OneSessionPerServer ==
    \A s \in {"wiki"}, t \in 1..(MaxLaunches + 1) :
        /\ Cardinality({ i \in EnsureUnits(s, t) : InCritical(i) }) <= 1
        /\ Cardinality({ j \in DOMAIN sessions :
                             /\ sessions[j].server = s
                             /\ sessions[j].loop = t
                             /\ sessions[j].stored }) <= 1
        /\ \A i \in EnsureUnits(s, t) :
               units[i].result = "ok" =>
                   /\ units[i].returned \in DOMAIN sessions
                   /\ sessions[units[i].returned].stored
                   /\ sessions[units[i].returned].live
                   /\ units[i].session \in {0, units[i].returned}
                   /\ \A k \in EnsureUnits(s, t) :
                          units[k].result = "ok" => units[k].returned = units[i].returned

\* C27 witness: two calls for the same server ran on the same loop; one
\* opened and stored the session, the other found it and opened none.
C27_Witness ==
    \E i, k \in DOMAIN units :
        /\ i # k
        /\ units[i].kind = "ensure" /\ units[k].kind = "ensure"
        /\ units[i].loop = units[k].loop
        /\ units[i].result = "ok" /\ units[k].result = "ok"
        /\ units[i].session # 0
        /\ units[k].session = 0
        /\ units[k].returned = units[i].session

\* C28: once the bounded wait of a caller has expired, its coroutine takes
\* no further step of the remote call: it stays where it was until it is
\* cancelled.
C28_TimeoutCancels ==
    [][\A i \in DOMAIN units :
           (units[i].waiter = "timed_out") =>
               \/ units'[i].pc = units[i].pc
               \/ units'[i].result = "cancelled"]_vars

\* C29: at most one thread with an event loop is alive, and when stop has
\* returned nothing that was handed to a loop is still pending on a thread
\* that is alive.
C29_OneLoopThread ==
    /\ Cardinality(DOMAIN threads) <= 1
    /\ (last_call.op = "stop") =>
           \A i \in DOMAIN units : Pending(units[i]) => units[i].loop \notin DOMAIN threads

====
